---- MODULE Spec2Model ----
(***************************************************************************)
(* Frame pacing and swapchain recreation of HelloTriangleApplication       *)
(* (src/main.cpp): mainLoop, drawFrame, recreateSwapChain and the resize   *)
(* callback on the control thread, against a graphics device that executes *)
(* submitted batches and present requests asynchronously.                  *)
(***************************************************************************)
EXTENDS Integers, Sequences, FiniteSets, TLC

\* ---------------------------------------------------------------- bounds
MaxFrames == 3          \* drawFrame calls explored in one run
MaxK == 2               \* resize callbacks delivered by one glfwPollEvents
MaxImages == 3          \* largest swapchain image count the device hands out

\* ------------------------------------------------------ program constants
MAX_FRAMES_IN_FLIGHT == 2

Slots == 0 .. (MAX_FRAMES_IN_FLIGHT - 1)
Families == 0 .. 1
ImageCounts == 2 .. MaxImages
Sizes == {<<0, 0>>, <<0, 5>>, <<100, 100>>}

\* VkSurfaceCapabilitiesKHR of the surface: currentExtent is the window's size,
\* or UINT32_MAX in both fields when the surface leaves the extent to the
\* swapchain; minImageExtent and maxImageExtent bound it
\* std::numeric_limits<uint32_t>::max(), 0xFFFFFFFF, as the 32-bit integer with
\* the same bits: it is only ever compared for equality
UINT32_MAX == -1
OpenExtent == <<UINT32_MAX, UINT32_MAX>>
CurrentExtents == Sizes \cup {OpenExtent}
MinImageExtent == <<1, 1>>
MaxImageExtent == <<64, 64>>

AcquireResults == {"SUCCESS", "SUBOPTIMAL", "OUT_OF_DATE", "ERROR"}
SubmitResults == {"SUCCESS", "ERROR"}
PresentResults == {"SUCCESS", "SUBOPTIMAL", "OUT_OF_DATE", "ERROR"}

\* what depends on the swapchain, in the order recreateSwapChain creates it and
\* in the order cleanupSwapChain destroys it (the descriptor sets go with their pool)
RebuildOrder_FramebuffersFirst ==
    <<"swapChain", "imageViews", "framebuffers", "renderPass", "pipelineLayout",
      "pipeline", "uniformBuffers", "descriptorPool", "descriptorSets",
      "commandBuffers">>
RebuildOrder ==
    <<"swapChain", "imageViews", "renderPass", "pipelineLayout", "pipeline",
      "framebuffers", "uniformBuffers", "descriptorPool", "descriptorSets",
      "commandBuffers">>
CleanupOrder_KeepsRenderPass ==
    <<"descriptorPool", "uniformBuffers", "commandBuffers", "pipeline",
      "pipelineLayout", "framebuffers", "imageViews", "swapChain">>
CleanupOrder ==
    <<"descriptorPool", "uniformBuffers", "commandBuffers", "pipeline",
      "pipelineLayout", "renderPass", "framebuffers", "imageViews", "swapChain">>
Dependents == {RebuildOrder[i] : i \in DOMAIN RebuildOrder}

\* what cleanup destroys after cleanupSwapChain, in its order: the per-slot
\* semaphores and fences of createSyncObjects first, the instance last (the
\* debug messenger exists in a build with _enableValidationLayers)
CleanupRest_KeepsDescriptorSetLayout ==
    <<"syncObjects", "indexBuffer", "vertexBuffer", "textureSampler",
      "textureImageView", "textureImage", "commandPool", "device", "surface",
      "debugMessenger", "instance">>
CleanupRest ==
    <<"syncObjects", "indexBuffer", "vertexBuffer", "textureSampler",
      "textureImageView", "textureImage", "commandPool", "descriptorSetLayout",
      "device", "surface", "debugMessenger", "instance">>

\* what initVulkan creates, in its order (choosePhysicalDevice, between the
\* surface and the device, creates no object)
InitOrder ==
    <<"instance", "debugMessenger", "surface", "device", "swapChain", "imageViews",
      "renderPass", "framebuffers", "descriptorSetLayout", "pipelineLayout",
      "pipeline", "commandPool", "textureImage", "textureImageView",
      "textureSampler", "vertexBuffer", "indexBuffer", "uniformBuffers",
      "descriptorPool", "descriptorSets", "commandBuffers", "syncObjects">>
Resources == {InitOrder[i] : i \in DOMAIN InitOrder}
InitResults == {"ok"} \cup Resources

\* the objects whose handles (or, for the swapchain, whose images, format or
\* extent) the create function of d reads, helpers it calls included
BuiltFrom(d) ==
    CASE d = "instance" -> {}
      [] d = "debugMessenger" -> {"instance"}
      [] d = "surface" -> {"instance"}
      [] d = "device" -> {"instance", "surface"}
      [] d = "swapChain" -> {"device", "surface"}
      [] d = "imageViews" -> {"device", "swapChain"}
      [] d = "renderPass" -> {"device", "swapChain"}
      [] d = "framebuffers" -> {"device", "swapChain", "imageViews", "renderPass"}
      [] d = "descriptorSetLayout" -> {"device"}
      [] d = "pipelineLayout" -> {"device", "descriptorSetLayout"}
      [] d = "pipeline" -> {"device", "swapChain", "pipelineLayout", "renderPass"}
      [] d = "commandPool" -> {"device"}
      [] d = "textureImage" -> {"device", "commandPool"}
      [] d = "textureImageView" -> {"device", "textureImage"}
      [] d = "textureSampler" -> {"device"}
      [] d = "vertexBuffer" -> {"device", "commandPool"}
      [] d = "indexBuffer" -> {"device", "commandPool"}
      [] d = "uniformBuffers" -> {"device", "swapChain"}
      [] d = "descriptorPool" -> {"device", "swapChain"}
      [] d = "descriptorSets" ->
            {"device", "swapChain", "descriptorSetLayout", "descriptorPool",
             "uniformBuffers", "textureImageView", "textureSampler"}
      [] d = "commandBuffers" ->
            {"device", "swapChain", "commandPool", "framebuffers", "renderPass",
             "pipeline", "pipelineLayout", "vertexBuffer", "indexBuffer",
             "descriptorSets"}
      [] d = "syncObjects" -> {"device"}

\* the objects other objects are created from, up to the instance
Owners == {"device", "surface", "instance"}

\* the device's answer to a rebuild: all calls succeed, the surface offers no
\* format or present mode, or the creation call of one step fails
RebuildResults == {"ok", "incompatible"} \cup Dependents

VARIABLES
    pc,              \* position of the control thread
    caller,          \* which drawFrame branch called recreateSwapChain
    currentFrame,    \* _currentFrame
    windowResized,   \* _windowResized
    queueFamilies,   \* _queueFamilies.graphics / .present
    fences,          \* _framesInFlightFences: "signaled" | "reset" | "armed"
    imageAvailable,  \* _imageAvailableSemaphores: signaled?
    renderFinished,  \* _renderFinishedSemaphores: signaled?
    gfxQueue,        \* batches submitted to _graphicsQueue, unfinished, in order
    swapAlive,       \* _swapChain and its dependents exist
    images,          \* per image of the current swapchain: owner and present request
    presentQueue,    \* images handed to vkQueuePresentKHR and not yet shown, in order
    imageIndex,      \* drawFrame's local imageIndex
    size,            \* recreateSwapChain's locals width, height
    sizeTrace,       \* how far the sizes read by the running recreation follow ScenarioSizes
    frames,          \* drawFrame calls so far
    resizedSince,    \* a resize callback ran since the last recreation was started
    fr,              \* what the current / last drawFrame call did
    error,           \* message of the exception that ended the run
    exit,            \* main's return value and what it wrote to stderr
    res,             \* per resource: "none" when destroyed, "new" when created
                     \* during the current drawFrame call, "earlier" when before
                     \* it; _swapChainExtent when that call stored it; the size
                     \* of _swapChainImages and of the per-image vectors
    run,             \* how the run so far follows the all-success scenarios
    check,           \* choosePhysicalDevice's local families over the successive
                     \* checkPhysicalDeviceQueueFamilies calls
    gpu,             \* choosePhysicalDevice: the devices, the loop, the choice
    upload,          \* the staging uploads of createTextureImage,
                     \* createVertexBuffer and createIndexBuffer
    inst             \* createInstance and the debug messenger

vars == <<pc, caller, currentFrame, windowResized, queueFamilies, fences,
          imageAvailable, renderFinished, gfxQueue, swapAlive, images,
          presentQueue, imageIndex, size, sizeTrace, frames, resizedSince,
          fr, error, exit, res, run, check, gpu, upload, inst>>

\* the frame loop's variables, and those of the startup steps modelled on their own
frameLoop == <<pc, caller, currentFrame, windowResized, queueFamilies, fences,
               imageAvailable, renderFinished, gfxQueue, swapAlive, images,
               presentQueue, imageIndex, size, sizeTrace, frames, resizedSince,
               fr, error, exit, res, run>>
startup == <<check, gpu, upload, inst>>

\* ----------------------------------------------------------- pure helpers

FreeImage == [st |-> "free", slot |-> 0, waits |-> FALSE, shows |-> FALSE]
AcquiredImage == [st |-> "acquired", slot |-> 0, waits |-> FALSE, shows |-> FALSE]
QueuedImage(s, w, sh) == [st |-> "queued", slot |-> s, waits |-> w, shows |-> sh]

NewFrame(slot) ==
    [slot |-> slot, acq |-> "none", sub |-> "none", pres |-> "none",
     resized |-> FALSE, recs |-> 0, recStarted |-> 0, rebuild |-> "none",
     surface |-> "none"]

\* chooseSwapExtent: the surface's currentExtent unless it is left open, else
\* the framebuffer size read now, clamped to the surface's bounds
Max(a, b) == IF a >= b THEN a ELSE b
Min(a, b) == IF a <= b THEN a ELSE b
chooseSwapExtent(currentExtent, framebuffer) ==
    IF currentExtent[1] # UINT32_MAX THEN currentExtent
    ELSE <<Max(MinImageExtent[1], Min(MaxImageExtent[1], framebuffer[1])),
           Max(MinImageExtent[2], Min(MaxImageExtent[2], framebuffer[2]))>>

\* vkDestroy* / vkFree* of one object; destroying the pool frees its sets.
\* Kept on record: an object destroyed while it does not exist, and what still
\* exists of the objects created from a device, surface or instance when that
\* is destroyed
Destroy_WithSyncObjects(r, d) ==
    [r EXCEPT !.gen = [x \in Resources |->
                         IF x = d \/ (d = "swapChain" /\ x = "syncObjects")
                         THEN "none" ELSE r.gen[x]]]
Destroy(r, d) ==
    [r EXCEPT !.gen = [x \in Resources |->
                         IF x = d \/ (d = "descriptorPool" /\ x = "descriptorSets")
                         THEN "none" ELSE r.gen[x]],
              !.invalid = IF r.gen[d] = "none" THEN @ \cup {d} ELSE @,
              !.orphaned = IF d \in Owners
                           THEN @ \cup {x \in Resources \ {d} :
                                          r.gen[x] # "none" /\ d \in BuiltFrom(x)}
                           ELSE @]
RECURSIVE DestroyAll(_, _)
DestroyAll(r, order) ==
    IF order = <<>> THEN r ELSE DestroyAll(Destroy(r, Head(order)), Tail(order))

\* the message of the exception a create function throws when its call fails
BuildError(d) ==
    CASE d = "swapChain" -> "failed to create swap chain"
      [] d = "imageViews" -> "failed to create image view"
      [] d = "renderPass" -> "failed to create render pass"
      [] d = "pipelineLayout" -> "failed to create pipeline layout!"
      [] d = "pipeline" -> "failed to create graphics pipeline"
      [] d = "framebuffers" -> "failed to create framebuffer"
      [] d = "uniformBuffers" -> "failed to create buffer"
      [] d = "descriptorPool" -> "failed to create descriptor pool"
      [] d = "descriptorSets" -> "failed to allocate descriptor sets"
      [] d = "commandBuffers" -> "failed to allocate command buffers!"
      [] d = "instance" -> "failed to create instance"
      [] d = "debugMessenger" -> "failed to create debug messenger"
      [] d = "surface" -> "failed to create window surface"
      [] d = "device" -> "failed to create logical device"
      [] d = "descriptorSetLayout" -> "failed to create descriptor set layout"
      [] d = "commandPool" -> "failed to create command pool"
      [] d = "textureImage" -> "failed to create image"
      [] d = "textureImageView" -> "failed to create image view"
      [] d = "textureSampler" -> "failed to create texture sampler"
      [] d = "vertexBuffer" -> "failed to create buffer"
      [] d = "indexBuffer" -> "failed to create buffer"
      [] d = "syncObjects" -> "failed to create sync objects"

\* every create function compares the result of its vkCreate* / vkAllocate* call
\* with VK_SUCCESS and throws otherwise
ChecksResult_OnlySwapChain(d) == d = "swapChain"
ChecksResult(d) == TRUE

\* the vectors with one entry per swapchain image, and the vector whose size()
\* each one is resized to by its create function
PerImage == {"imageViews", "framebuffers", "commandBuffers", "uniformBuffers",
             "descriptorSets"}
SizedFrom(d) ==
    CASE d = "imageViews" -> "swapChain"
      [] d = "framebuffers" -> "imageViews"
      [] d = "commandBuffers" -> "framebuffers"
      [] d = "uniformBuffers" -> "swapChain"
      [] d = "descriptorSets" -> "swapChain"

\* the sizes of the vectors after create function d: createSwapChain resizes
\* _swapChainImages to the m images vkGetSwapchainImagesKHR reports, the
\* per-image create functions resize their vector to the size of their source
Resize_KeepsSize(r, d, m) == r.count
Resize(r, d, m) ==
    IF d = "swapChain" THEN [r.count EXCEPT ![d] = m]
    ELSE IF d \in PerImage THEN [r.count EXCEPT ![d] = r.count[SizedFrom(d)]]
    ELSE r.count

\* a create function stores the new handle in its member; a handle that is
\* still alive there is overwritten and can no longer be destroyed. Kept on
\* record: an object created while one it is built from does not exist
Create(r, d, m) ==
    [r EXCEPT !.gen = [r.gen EXCEPT ![d] = "new"],
              !.leaked = IF r.gen[d] # "none" THEN r.leaked \cup {d} ELSE r.leaked,
              !.premature = IF \E x \in BuiltFrom(d) : r.gen[x] = "none"
                            THEN @ \cup {d} ELSE @,
              !.count = Resize(r, d, m)]

\* a new drawFrame call: what exists was created before it
Age(r) == [r EXCEPT !.gen = [d \in Resources |->
                               IF r.gen[d] = "none" THEN "none" ELSE "earlier"],
                     !.extent = "earlier"]

\* createSwapChain(); ...; createCommandBuffers(): the steps in order, up to
\* the first exception; failing is the step whose creation call fails
RECURSIVE Build(_, _, _, _)
Build(r, order, failing, m) ==
    IF order = <<>> THEN [res |-> r, error |-> "none"]
    ELSE IF Head(order) # failing
    THEN Build(Create(r, Head(order), m), Tail(order), failing, m)
    ELSE IF ChecksResult(Head(order)) THEN [res |-> r, error |-> BuildError(Head(order))]
    ELSE Build(r, Tail(order), failing, m)

\* vkWaitForFences(..., VK_TRUE, UINT64_MAX) returns once the fence is signaled
FenceWaitPasses_NoWait(f) == TRUE
FenceWaitPasses(f) == f = "signaled"

\* the branch drawFrame takes on the result of vkAcquireNextImageKHR
AcquireOutcome_Proceeds(result) ==
    IF result \notin {"SUCCESS", "SUBOPTIMAL", "OUT_OF_DATE"} THEN "throw" ELSE "proceed"
AcquireOutcome(result) ==
    IF result = "OUT_OF_DATE" THEN "recreate"
    ELSE IF result # "SUCCESS" /\ result # "SUBOPTIMAL" THEN "throw"
    ELSE "proceed"

\* main's catch block: fprintf(stderr, "%s\n", e.what()); return EXIT_FAILURE;
ReportFailure_ExitsZero(what) == [code |-> "EXIT_SUCCESS", stderr |-> "none"]
ReportFailure(what) == [code |-> "EXIT_FAILURE", stderr |-> what]

\* the branch drawFrame takes on the result of vkQueueSubmit
SubmitOutcome_Ignores(result) == "proceed"
SubmitOutcome(result) == IF result # "SUCCESS" THEN "throw" ELSE "proceed"

\* the branch drawFrame takes on the result of vkQueuePresentKHR
PresentOutcome_IgnoresFlag(result, resized) ==
    IF result = "OUT_OF_DATE" \/ result = "SUBOPTIMAL" THEN "recreate"
    ELSE IF result # "SUCCESS" THEN "throw"
    ELSE "proceed"
PresentOutcome(result, resized) ==
    IF result = "OUT_OF_DATE" \/ result = "SUBOPTIMAL" \/ resized THEN "recreate"
    ELSE IF result # "SUCCESS" THEN "throw"
    ELSE "proceed"

\* the render-finished semaphore is put in the submit's signal list and in the
\* present's wait list only when the two queue families differ
UsesRenderFinished(qf) == qf.graphics # qf.present

\* the size sequence of the degenerate-size scenario, and the step that follows it
ScenarioSizes == <<<<0, 0>>, <<0, 5>>, <<100, 100>>>>
Track(t, s) ==
    IF t >= 0 /\ t < Len(ScenarioSizes) /\ ScenarioSizes[t + 1] = s THEN t + 1 ELSE -1

\* the all-success scenarios: every device call succeeds and no resize callback
\* runs, except that at most one vkQueuePresentKHR reports OUT_OF_DATE.  run.oods
\* counts those presents and run.recs the recreations completed, for as long as
\* the run follows a scenario; OffScenario once it has left them.
OffScenario == [oods |-> -1, recs |-> 0]
Follow(r, ok) == IF r.oods >= 0 /\ ok THEN r ELSE OffScenario
FollowPresent(r, result) ==
    IF result = "OUT_OF_DATE" /\ r.oods = 0 THEN [r EXCEPT !.oods = 1]
    ELSE Follow(r, result = "SUCCESS")
FollowRebuild(r, result) ==
    IF r.oods >= 0 /\ result = "ok" THEN [r EXCEPT !.recs = @ + 1] ELSE OffScenario

\* the slot that follows slot c
NextSlot_Stuck(c) == c
NextSlot(c) == (c + 1) % MAX_FRAMES_IN_FLIGHT

\* where drawFrame continues when recreateSwapChain returns: the acquire branch
\* returns at once, the present branch falls through to the slot advance
ReturnTo_SkipsAdvance(from) == "loop"
ReturnTo(from) == IF from = "acquire" THEN "loop" ELSE "advance"

\* framebufferResizeCallback sets app->_windowResized; Deliver runs it k times
framebufferResizeCallback(resized) == TRUE
RECURSIVE Deliver(_, _)
Deliver(k, resized) ==
    IF k = 0 THEN resized ELSE framebufferResizeCallback(Deliver(k - 1, resized))

\* loop condition of recreateSwapChain's size poll
Degenerate_BothZero(w, h) == w = 0 /\ h = 0
Degenerate(w, h) == w = 0 \/ h = 0

\* vkDeviceWaitIdle returns once every queue has drained its operations
DeviceIdle_NoWait == TRUE
DeviceIdle ==
    /\ gfxQueue = <<>>
    /\ \A j \in 1 .. Len(presentQueue) : ~images[presentQueue[j]].waits

InRecreate == pc \in {"recreate", "sizeLoop", "deviceIdle", "cleanupSwapChain", "rebuild"}

\* ------------------------------------------------------------------ Init

Init ==
    /\ pc = "loop"
    /\ caller = "none"
    /\ currentFrame = 0
    /\ windowResized = FALSE
    \* only whether the two indices are equal matters below: graphics is fixed
    /\ queueFamilies \in {qf \in [graphics : Families, present : Families] :
                            qf.graphics = 0}
    /\ fences = [i \in Slots |-> "signaled"]
    /\ imageAvailable = [i \in Slots |-> FALSE]
    /\ renderFinished = [i \in Slots |-> FALSE]
    /\ gfxQueue = <<>>
    /\ swapAlive = TRUE
    /\ \E m \in ImageCounts : images = [k \in 0 .. (m - 1) |-> FreeImage]
    /\ presentQueue = <<>>
    /\ imageIndex = 0
    /\ size = <<0, 0>>
    /\ sizeTrace = 0
    /\ frames = 0
    /\ resizedSince = FALSE
    /\ fr = NewFrame(0)
    /\ error = "none"
    /\ exit = [code |-> "running", stderr |-> "none"]
    /\ res = [gen |-> [d \in Resources |-> "earlier"], leaked |-> {},
              extent |-> "earlier", invalid |-> {}, orphaned |-> {}, premature |-> {},
              count |-> [d \in PerImage \cup {"swapChain"} |-> Cardinality(DOMAIN images)]]
    /\ run = [oods |-> 0, recs |-> 0]
    /\ check = "over"
    /\ gpu = "over"
    /\ upload = "over"
    /\ inst = "over"

\* -------------------------------------------------------------- mainLoop

\* while(!glfwWindowShouldClose(_window)) { glfwPollEvents(); drawFrame(); }:
\* glfwPollEvents runs the resize callback k times, then drawFrame is entered
mainLoop_Iterate(k) ==
    /\ pc = "loop"
    /\ frames < MaxFrames
    /\ windowResized' = Deliver(k, windowResized)
    /\ resizedSince' = (resizedSince \/ k > 0)
    /\ frames' = frames + 1
    /\ fr' = NewFrame(currentFrame)
    /\ res' = Age(res)
    /\ run' = Follow(run, k = 0)
    /\ pc' = "wait"
    /\ UNCHANGED <<startup, exit, caller, currentFrame, queueFamilies, fences, imageAvailable,
                   renderFinished, gfxQueue, swapAlive, images, presentQueue,
                   imageIndex, size, sizeTrace, error>>

\* the window was closed: leave the loop and wait for the device
mainLoop_Exit ==
    /\ pc = "loop"
    /\ pc' = "exitIdle"
    /\ UNCHANGED <<startup, exit, res, run, caller, currentFrame, windowResized, queueFamilies, fences,
                   imageAvailable, renderFinished, gfxQueue, swapAlive, images,
                   presentQueue, imageIndex, size, sizeTrace, frames,
                   resizedSince, fr, error>>

mainLoop_DeviceWaitIdle ==
    /\ pc = "exitIdle"
    /\ DeviceIdle
    /\ pc' = "cleanup"
    /\ UNCHANGED <<startup, exit, res, run, caller, currentFrame, windowResized, queueFamilies, fences,
                   imageAvailable, renderFinished, gfxQueue, swapAlive, images,
                   presentQueue, imageIndex, size, sizeTrace, frames,
                   resizedSince, fr, error>>

\* cleanup(): cleanupSwapChain(), destroySyncObjects(), ... vkDestroyDevice
cleanup ==
    /\ pc = "cleanup"
    /\ pc' = "done"
    /\ swapAlive' = FALSE
    /\ res' = DestroyAll(DestroyAll(res, CleanupOrder), CleanupRest)
    /\ images' = [k \in DOMAIN images |-> FreeImage]
    /\ presentQueue' = <<>>
    /\ UNCHANGED <<startup, exit, run, caller, currentFrame, windowResized, queueFamilies, fences,
                   imageAvailable, renderFinished, gfxQueue, imageIndex, size,
                   sizeTrace, frames, resizedSince, fr, error>>

\* ------------------------------------------------------------- drawFrame

\* vkWaitForFences on the slot's fence, then vkResetFences
drawFrame_WaitFence ==
    /\ pc = "wait"
    /\ FenceWaitPasses(fences[currentFrame])
    /\ fences' = [fences EXCEPT ![currentFrame] = "reset"]
    /\ pc' = "acquire"
    /\ UNCHANGED <<startup, exit, res, run, caller, currentFrame, windowResized, queueFamilies,
                   imageAvailable, renderFinished, gfxQueue, swapAlive, images,
                   presentQueue, imageIndex, size, sizeTrace, frames,
                   resizedSince, fr, error>>

\* vkAcquireNextImageKHR and the branch on its result
drawFrame_Acquire(result, k) ==
    /\ pc = "acquire"
    /\ run' = Follow(run, result = "SUCCESS")
    /\ fr' = [fr EXCEPT !.acq = result,
                        !.recStarted = IF AcquireOutcome(result) = "recreate"
                                       THEN @ + 1 ELSE @]
    /\ CASE AcquireOutcome(result) = "recreate" ->
              /\ pc' = "recreate"
              /\ caller' = "acquire"
              /\ resizedSince' = FALSE
              /\ UNCHANGED <<images, presentQueue, imageIndex, imageAvailable, error>>
         [] AcquireOutcome(result) = "throw" ->
              /\ pc' = "failed"
              /\ error' = "failed to acquire swap chain image"
              /\ UNCHANGED <<images, presentQueue, imageIndex, imageAvailable, caller,
                             resizedSince>>
         [] OTHER ->
              /\ k \in DOMAIN images
              /\ images[k].st = "free"
              /\ images' = [images EXCEPT ![k] = AcquiredImage]
              /\ imageIndex' = k
              /\ imageAvailable' = [imageAvailable EXCEPT ![currentFrame] = TRUE]
              /\ pc' = "submit"
              /\ UNCHANGED <<presentQueue, caller, resizedSince, error>>
    /\ UNCHANGED <<startup, exit, res, currentFrame, windowResized, queueFamilies, fences,
                   renderFinished, gfxQueue, swapAlive, size, sizeTrace, frames>>

\* updateUniformBuffer(imageIndex), then vkQueueSubmit with the slot's fence
drawFrame_Submit(result) ==
    /\ pc = "submit"
    /\ run' = Follow(run, result = "SUCCESS")
    /\ fr' = [fr EXCEPT !.sub = result]
    /\ IF result = "SUCCESS"
       THEN /\ gfxQueue' = Append(gfxQueue,
                    [slot |-> currentFrame, img |-> imageIndex,
                     signals |-> UsesRenderFinished(queueFamilies)])
            /\ fences' = [fences EXCEPT ![currentFrame] = "armed"]
       ELSE UNCHANGED <<gfxQueue, fences>>
    /\ IF SubmitOutcome(result) = "throw"
       THEN /\ pc' = "failed"
            /\ error' = "failed to submit draw command buffer"
       ELSE /\ pc' = "present"
            /\ UNCHANGED error
    /\ UNCHANGED <<startup, exit, res, caller, currentFrame, windowResized, queueFamilies,
                   imageAvailable, renderFinished, swapAlive, images,
                   presentQueue, imageIndex, size, sizeTrace, frames,
                   resizedSince>>

\* vkQueuePresentKHR and the branch on its result and on _windowResized
drawFrame_Present(result) ==
    /\ pc = "present"
    /\ run' = FollowPresent(run, result)
    /\ fr' = [fr EXCEPT !.pres = result, !.resized = windowResized,
                        !.recStarted = IF PresentOutcome(result, windowResized) = "recreate"
                                       THEN @ + 1 ELSE @]
    /\ images' = IF result = "ERROR" THEN images
                 ELSE [images EXCEPT ![imageIndex] =
                          QueuedImage(currentFrame, UsesRenderFinished(queueFamilies),
                                      result # "OUT_OF_DATE")]
    /\ presentQueue' = IF result = "ERROR" THEN presentQueue
                       ELSE Append(presentQueue, imageIndex)
    /\ CASE PresentOutcome(result, windowResized) = "recreate" ->
              /\ windowResized' = FALSE
              /\ pc' = "recreate"
              /\ caller' = "present"
              /\ resizedSince' = FALSE
              /\ UNCHANGED error
         [] PresentOutcome(result, windowResized) = "throw" ->
              /\ pc' = "failed"
              /\ error' = "failed to present swap chain image"
              /\ UNCHANGED <<windowResized, caller, resizedSince>>
         [] OTHER ->
              /\ pc' = "advance"
              /\ UNCHANGED <<windowResized, caller, resizedSince, error>>
    /\ UNCHANGED <<startup, exit, res, currentFrame, queueFamilies, fences, imageAvailable,
                   renderFinished, gfxQueue, swapAlive, imageIndex, size,
                   sizeTrace, frames>>

\* _currentFrame = (_currentFrame + 1) % MAX_FRAMES_IN_FLIGHT
drawFrame_Advance ==
    /\ pc = "advance"
    /\ currentFrame' = NextSlot(currentFrame)
    /\ pc' = "loop"
    /\ imageIndex' = 0
    /\ UNCHANGED <<startup, exit, res, run, caller, windowResized, queueFamilies, fences, imageAvailable,
                   renderFinished, gfxQueue, swapAlive, images, presentQueue,
                   size, sizeTrace, frames, resizedSince, fr, error>>

\* ----------------------------------------------------- recreateSwapChain

\* the first glfwGetFramebufferSize
recreateSwapChain_GetSize(w, h) ==
    /\ pc = "recreate"
    /\ size' = <<w, h>>
    /\ sizeTrace' = Track(0, <<w, h>>)
    /\ pc' = "sizeLoop"
    /\ UNCHANGED <<startup, exit, res, run, caller, currentFrame, windowResized, queueFamilies, fences,
                   imageAvailable, renderFinished, gfxQueue, swapAlive, images,
                   presentQueue, imageIndex, frames, resizedSince, fr, error>>

\* loop body: glfwGetFramebufferSize again, then glfwWaitEvents, which runs the
\* resize callback for the size events it processes
recreateSwapChain_PollSize(w, h, notified) ==
    /\ pc = "sizeLoop"
    /\ Degenerate(size[1], size[2])
    /\ size' = <<w, h>>
    /\ sizeTrace' = Track(sizeTrace, <<w, h>>)
    /\ windowResized' = Deliver(IF notified THEN 1 ELSE 0, windowResized)
    /\ resizedSince' = (resizedSince \/ notified)
    /\ run' = Follow(run, ~notified)
    /\ UNCHANGED <<startup, exit, res, pc, caller, currentFrame, queueFamilies, fences,
                   imageAvailable, renderFinished, gfxQueue, swapAlive, images,
                   presentQueue, imageIndex, frames, fr, error>>

\* the loop condition is false: go on to vkDeviceWaitIdle
recreateSwapChain_SizeOk ==
    /\ pc = "sizeLoop"
    /\ ~Degenerate(size[1], size[2])
    /\ pc' = "deviceIdle"
    /\ UNCHANGED <<startup, exit, res, run, caller, currentFrame, windowResized, queueFamilies, fences,
                   imageAvailable, renderFinished, gfxQueue, swapAlive, images,
                   presentQueue, imageIndex, size, sizeTrace, frames,
                   resizedSince, fr, error>>

recreateSwapChain_DeviceWaitIdle ==
    /\ pc = "deviceIdle"
    /\ DeviceIdle
    /\ pc' = "cleanupSwapChain"
    /\ sizeTrace' = 0
    /\ UNCHANGED <<startup, exit, res, run, caller, currentFrame, windowResized, queueFamilies, fences,
                   imageAvailable, renderFinished, gfxQueue, swapAlive, images,
                   presentQueue, imageIndex, size, frames, resizedSince, fr,
                   error>>

\* cleanupSwapChain(): the swapchain and everything sized to it is destroyed
cleanupSwapChain ==
    /\ pc = "cleanupSwapChain"
    /\ swapAlive' = FALSE
    /\ res' = DestroyAll(res, CleanupOrder)
    /\ pc' = "rebuild"
    /\ UNCHANGED <<startup, exit, run, caller, currentFrame, windowResized, queueFamilies, fences,
                   imageAvailable, renderFinished, gfxQueue, images,
                   presentQueue, imageIndex, size, sizeTrace, frames,
                   resizedSince, fr, error>>

\* checkPhysicalDeviceSwapChain, then createSwapChain .. createCommandBuffers
recreateSwapChain_Rebuild(result, m, currentExtent, framebuffer) ==
    /\ pc = "rebuild"
    /\ run' = FollowRebuild(run, result)
    /\ LET b == Build(res, RebuildOrder, result, m) IN
       CASE result = "incompatible" ->
              /\ pc' = "failed"
              /\ error' = "swapchain is not compatible anymore"
              /\ fr' = [fr EXCEPT !.rebuild = result]
              /\ UNCHANGED <<swapAlive, images, presentQueue, caller, size, res>>
         [] result # "incompatible" /\ b.error # "none" ->
              /\ pc' = "failed"
              /\ error' = b.error
              /\ fr' = [fr EXCEPT !.rebuild = result]
              /\ res' = b.res
              /\ swapAlive' = (b.res.gen["swapChain"] # "none")
              /\ UNCHANGED <<images, presentQueue, caller, size>>
         [] OTHER ->
              /\ swapAlive' = (b.res.gen["swapChain"] # "none")
              /\ res' = [b.res EXCEPT !.extent = chooseSwapExtent(currentExtent, framebuffer)]
              /\ images' = [k \in 0 .. (m - 1) |-> FreeImage]
              /\ presentQueue' = <<>>
              /\ fr' = [fr EXCEPT !.recs = @ + 1, !.rebuild = result,
                                  !.surface = [currentExtent |-> currentExtent,
                                               framebuffer |-> framebuffer]]
              /\ pc' = ReturnTo(caller)
              /\ caller' = "none"
              /\ size' = <<0, 0>>
              /\ UNCHANGED error
    /\ UNCHANGED <<startup, exit, currentFrame, windowResized, queueFamilies, fences,
                   imageAvailable, renderFinished, gfxQueue, imageIndex,
                   sizeTrace, frames, resizedSince>>

\* ------------------------------------------------------------------ main

\* catch(const std::exception& e): the exception left run(); its message goes
\* to stderr and main returns EXIT_FAILURE
main_Catch ==
    /\ pc = "failed"
    /\ exit.code = "running"
    /\ exit' = ReportFailure(error)
    /\ UNCHANGED <<startup, pc, caller, currentFrame, windowResized, queueFamilies, fences,
                   imageAvailable, renderFinished, gfxQueue, swapAlive, images,
                   presentQueue, imageIndex, size, sizeTrace, frames,
                   resizedSince, fr, error, res, run>>

\* run() returned: main returns EXIT_SUCCESS
main_Return ==
    /\ pc = "done"
    /\ exit.code = "running"
    /\ exit' = [code |-> "EXIT_SUCCESS", stderr |-> "none"]
    /\ UNCHANGED <<startup, pc, caller, currentFrame, windowResized, queueFamilies, fences,
                   imageAvailable, renderFinished, gfxQueue, swapAlive, images,
                   presentQueue, imageIndex, size, sizeTrace, frames,
                   resizedSince, fr, error, res, run>>

\* ------------------------------------------------------------ the device

\* the graphics queue finishes its oldest batch: the batch has consumed its
\* wait semaphore, signals its signal semaphores and its fence
GpuComplete ==
    /\ gfxQueue # <<>>
    /\ imageAvailable[Head(gfxQueue).slot]
    /\ LET b == Head(gfxQueue) IN
         /\ imageAvailable' = [imageAvailable EXCEPT ![b.slot] = FALSE]
         /\ renderFinished' = IF b.signals
                              THEN [renderFinished EXCEPT ![b.slot] = TRUE]
                              ELSE renderFinished
         /\ fences' = [fences EXCEPT ![b.slot] = "signaled"]
    /\ gfxQueue' = Tail(gfxQueue)
    /\ UNCHANGED <<startup, exit, res, run, pc, caller, currentFrame, windowResized, queueFamilies,
                   swapAlive, images, presentQueue, imageIndex, size, sizeTrace,
                   frames, resizedSince, fr, error>>

\* the present queue executes its oldest present request: it waits for the
\* request's wait semaphore, if it has one, and the presentation engine shows
\* the image and releases it
PresentReady ==
    /\ presentQueue # <<>>
    /\ images[Head(presentQueue)].waits => renderFinished[images[Head(presentQueue)].slot]

PresentEngine ==
    /\ PresentReady
    /\ LET k == Head(presentQueue) IN
         /\ renderFinished' = IF images[k].waits
                              THEN [renderFinished EXCEPT ![images[k].slot] = FALSE]
                              ELSE renderFinished
         /\ images' = [images EXCEPT ![k] = FreeImage]
    /\ presentQueue' = Tail(presentQueue)
    /\ UNCHANGED <<startup, exit, res, run, pc, caller, currentFrame, windowResized, queueFamilies,
                   fences, imageAvailable, gfxQueue, swapAlive, imageIndex,
                   size, sizeTrace, frames, resizedSince, fr, error>>

\* ------------------------------------------------------------------ Next

Next ==
    \/ \E k \in 0 .. MaxK : mainLoop_Iterate(k)
    \/ mainLoop_Exit
    \/ mainLoop_DeviceWaitIdle
    \/ cleanup
    \/ drawFrame_WaitFence
    \/ \E result \in AcquireResults, k \in 0 .. (MaxImages - 1) : drawFrame_Acquire(result, k)
    \/ \E result \in SubmitResults : drawFrame_Submit(result)
    \/ \E result \in PresentResults : drawFrame_Present(result)
    \/ drawFrame_Advance
    \/ \E s \in Sizes : recreateSwapChain_GetSize(s[1], s[2])
    \/ \E s \in Sizes, n \in BOOLEAN : recreateSwapChain_PollSize(s[1], s[2], n)
    \/ recreateSwapChain_SizeOk
    \/ recreateSwapChain_DeviceWaitIdle
    \/ cleanupSwapChain
    \/ \E result \in RebuildResults :
          \* no step reads the image count or the extent after a failed rebuild,
          \* and chooseSwapExtent reads the framebuffer size only for an open extent
          \E m \in IF result = "ok" THEN ImageCounts ELSE {2},
             currentExtent \in IF result = "ok" THEN CurrentExtents ELSE {OpenExtent} :
             \E framebuffer \in IF result = "ok" /\ currentExtent = OpenExtent
                                THEN Sizes ELSE {<<0, 0>>} :
                recreateSwapChain_Rebuild(result, m, currentExtent, framebuffer)
    \/ main_Catch
    \/ main_Return
    \/ GpuComplete
    \/ PresentEngine

Spec == Init /\ [][Next]_vars

TypeOK ==
    /\ currentFrame \in Slots
    /\ windowResized \in BOOLEAN
    /\ fences \in [Slots -> {"signaled", "reset", "armed"}]
    /\ frames \in 0 .. MaxFrames
    /\ run.oods \in -1 .. 1
    /\ run.recs \in 0 .. 1
    /\ res.gen \in [Resources -> {"none", "earlier", "new"}]
    /\ res.leaked \subseteq Resources
    /\ exit.code \in {"running", "EXIT_SUCCESS", "EXIT_FAILURE"}

\* ---------------------------------------------------------------- claims

Returned == pc \in {"loop", "exitIdle", "cleanup", "done"}
RebuildErrors == {"swapchain is not compatible anymore"} \cup {BuildError(d) : d \in Dependents}
AllAlive == \A d \in Dependents : res.gen[d] # "none"
AllNew == \A d \in Dependents : res.gen[d] = "new"
DrawFrameErrors ==
    {"failed to acquire swap chain image", "failed to submit draw command buffer",
     "failed to present swap chain image"} \cup RebuildErrors
Shutdown == {"exitIdle", "cleanup", "done"}
WorkUnfinished ==
    \/ gfxQueue # <<>>
    \/ \E i \in Slots : fences[i] = "armed"
    \/ \E j \in 1 .. Len(presentQueue) : images[presentQueue[j]].waits
BatchesOf(i) == {j \in 1 .. Len(gfxQueue) : gfxQueue[j].slot = i}

\* C1: drawFrame resets a slot's fence, acquires with the slot's semaphore and
\* submits with the slot's fence only when no batch submitted with that fence is
\* unfinished; so every slot has at most one unfinished batch and at most
\* MAX_FRAMES_IN_FLIGHT batches are unfinished at any time.
C1_SlotReusedAfterCompletion ==
    /\ pc \in {"acquire", "submit"} => BatchesOf(currentFrame) = {}
    /\ \A i \in Slots : Cardinality(BatchesOf(i)) <= 1
    /\ \A i \in Slots : (BatchesOf(i) # {}) <=> (fences[i] = "armed")
    /\ Len(gfxQueue) <= MAX_FRAMES_IN_FLIGHT

\* a slot is used a second time and MAX_FRAMES_IN_FLIGHT batches are in flight
C1_Witness ==
    /\ pc = "present"
    /\ frames > MAX_FRAMES_IN_FLIGHT
    /\ Len(gfxQueue) = MAX_FRAMES_IN_FLIGHT

\* C2: whenever drawFrame waits for the current slot's fence, the fence is
\* signaled or a batch submitted with it is still executing, so the wait ends
\* once the device completes its work; in particular the call that follows an
\* iteration skipped on an out-of-date acquire gets past its fence wait.
C2_FenceWaitEnds ==
    pc = "wait" => fences[currentFrame] # "reset"

\* C3: every rendering batch signals its slot's render-finished semaphore and
\* every present request waits on it, so the present queue can show an image
\* only after the batch that renders it has finished, whatever the queue
\* families are.
C3_PresentWaitsForRendering ==
    /\ \A j \in 1 .. Len(gfxQueue) : gfxQueue[j].signals
    /\ \A k \in DOMAIN images : images[k].st = "queued" => images[k].waits
    /\ (PresentReady /\ images[Head(presentQueue)].shows) =>
            \A j \in 1 .. Len(gfxQueue) : gfxQueue[j].img # Head(presentQueue)

\* C4: when recreateSwapChain reaches cleanupSwapChain, no submitted batch is
\* unfinished: no slot is SUBMITTED and no fence armed by a submit is unsignaled.
C4_TeardownAfterIdle ==
    pc = "cleanupSwapChain" =>
        /\ gfxQueue = <<>>
        /\ \A i \in Slots : fences[i] # "armed"

\* teardown on the present-triggered path, after this frame's batch was submitted
C4_Witness ==
    /\ pc = "cleanupSwapChain"
    /\ caller = "present"
    /\ fr.sub = "SUCCESS"
    /\ frames >= MAX_FRAMES_IN_FLIGHT

\* C5: a present result other than success, out-of-date or suboptimal makes
\* drawFrame throw and start no recreation, whatever _windowResized is.
C5_PresentErrorIsFatal ==
    fr.pres = "ERROR" =>
        /\ pc = "failed"
        /\ error = "failed to present swap chain image"
        /\ fr.recStarted = 0

\* C6: resize notifications are coalesced into one recreation: outside a running
\* recreation the pending-resize flag is set only if a resize callback ran after
\* the last recreation was started, so a recreation that has finished leaves no
\* stale flag behind to cause a second one.
C6_ResizeCoalesced ==
    (~InRecreate /\ pc # "failed" /\ ~resizedSince) => ~windowResized

\* C7: an out-of-date acquire makes drawFrame start exactly one recreation and
\* skip the iteration: nothing is submitted or presented, the slot index is
\* unchanged, drawFrame throws none of its own errors for it and, the rebuild
\* done, returns with exactly one recreation performed.
C7_OutOfDateAcquireSkips ==
    fr.acq = "OUT_OF_DATE" =>
        /\ fr.sub = "none"
        /\ fr.pres = "none"
        /\ fr.recStarted = 1
        /\ currentFrame = fr.slot
        /\ pc # "advance"
        /\ error \in {"none"} \cup RebuildErrors
        /\ Returned => (fr.recs = 1 /\ error = "none")
        /\ ~Returned => (fr.recs = 0 /\ (InRecreate \/ pc = "failed"))

\* drawFrame has returned from the out-of-date path
C7_Witness ==
    /\ pc = "loop"
    /\ fr.acq = "OUT_OF_DATE"
    /\ fr.recs = 1
    /\ frames >= MAX_FRAMES_IN_FLIGHT

\* C8: after present, an out-of-date or suboptimal result or a set
\* _windowResized makes drawFrame clear the flag and recreate the swapchain
\* exactly once in that iteration, throwing none of its own errors; a successful
\* present with the flag clear starts no recreation.
C8_PresentRecreatesOnce ==
    /\ (fr.pres \in {"OUT_OF_DATE", "SUBOPTIMAL"} \/ (fr.pres # "none" /\ fr.resized)) =>
            /\ fr.recStarted = 1
            /\ error \in {"none"} \cup RebuildErrors
            /\ (pc = "recreate" => ~windowResized)
            /\ (Returned \/ pc = "advance") => (fr.recs = 1 /\ error = "none")
            /\ ~(Returned \/ pc = "advance") => (fr.recs = 0 /\ (InRecreate \/ pc = "failed"))
    /\ (fr.pres = "SUCCESS" /\ ~fr.resized) =>
            /\ fr.recStarted = 0
            /\ fr.recs = 0
            /\ (Returned \/ pc = "advance")

\* a successful present recreated the swapchain only because of the flag
C8_Witness ==
    /\ pc = "loop"
    /\ fr.pres = "SUCCESS"
    /\ fr.resized
    /\ fr.recs = 1
    /\ ~windowResized

\* C9: when acquisition reports suboptimal the frame is submitted and presented
\* and that iteration recreates the swapchain after present, for every present
\* result that is not an error.
C9_SuboptimalAcquireRecreates ==
    (fr.acq = "SUBOPTIMAL" /\ fr.pres \in {"SUCCESS", "SUBOPTIMAL", "OUT_OF_DATE"}) =>
        /\ fr.sub = "SUCCESS"
        /\ fr.recStarted = 1

\* C10: recreateSwapChain reaches the device-idle wait, the teardown and the
\* rebuild only with a size read whose width and height are both non-zero; for
\* the reads (0,0), (0,5), (100,100) that is the third; while it polls over
\* zero sizes, nothing fails.
C10_DegenerateSizeGuard ==
    /\ pc \in {"deviceIdle", "cleanupSwapChain", "rebuild"} =>
            (size[1] # 0 /\ size[2] # 0)
    /\ pc = "deviceIdle" => sizeTrace \in {-1, Len(ScenarioSizes)}
    /\ pc \in {"recreate", "sizeLoop"} => (error = "none" /\ swapAlive)

\* the sizes (0,0), (0,5), (100,100) were read and recreation proceeds
C10_Witness ==
    /\ pc = "deviceIdle"
    /\ sizeTrace = Len(ScenarioSizes)
    /\ size = <<100, 100>>

\* C11: while every device call succeeds and no resize callback runs, the k-th
\* drawFrame call (k = 0, 1, ...) uses slot k mod MAX_FRAMES_IN_FLIGHT, every
\* completed frame leaves the index at the next slot, the index stays within
\* 0 .. N-1, and the slot's previous batch is finished before its new submit
C11_SlotsAlternate ==
    /\ currentFrame \in Slots
    /\ (run.oods = 0 /\ frames > 0) =>
          /\ run.recs = 0
          /\ fr.slot = (frames - 1) % MAX_FRAMES_IN_FLIGHT
          /\ pc \in {"wait", "acquire", "submit", "present", "advance"} =>
                currentFrame = fr.slot
          /\ Returned => currentFrame = frames % MAX_FRAMES_IN_FLIGHT
          /\ pc \in {"acquire", "submit"} => BatchesOf(currentFrame) = {}

C11_Witness ==
    /\ run.oods = 0
    /\ pc = "present"
    /\ frames > MAX_FRAMES_IN_FLIGHT
    /\ fr.slot = (frames - 1) % MAX_FRAMES_IN_FLIGHT

\* C12: when one vkQueuePresentKHR reports OUT_OF_DATE and every other call
\* succeeds, exactly one recreation is performed, no error is raised, the frame
\* of that present still advances the slot index once, and the k-th drawFrame
\* call keeps using slot k mod MAX_FRAMES_IN_FLIGHT before and after it
C12_OneOutOfDatePresent ==
    run.oods = 1 =>
        /\ error = "none" /\ pc # "failed"
        /\ fr.slot = (frames - 1) % MAX_FRAMES_IN_FLIGHT
        /\ InRecreate => (run.recs = 0 /\ fr.pres = "OUT_OF_DATE")
        /\ ~InRecreate => run.recs = 1
        /\ Returned => currentFrame = frames % MAX_FRAMES_IN_FLIGHT

C12_Witness ==
    /\ run.oods = 1
    /\ run.recs = 1
    /\ pc = "loop"
    /\ fr.pres = "SUCCESS"
    /\ frames > MAX_FRAMES_IN_FLIGHT
    /\ currentFrame = frames % MAX_FRAMES_IN_FLIGHT

\* C13: the swapchain and its dependents are torn down and rebuilt as a unit:
\* all of them are destroyed before the rebuild starts, no handle is overwritten
\* while its object is alive, once recreateSwapChain has returned every one of
\* them was created by that call, and frames run and batches are in flight
\* only while all of them exist
C13_RebuiltAsUnit ==
    /\ res.leaked = {}
    /\ pc = "rebuild" => \A d \in Dependents : res.gen[d] = "none"
    /\ (fr.recs = 1 /\ pc # "done") => AllNew
    /\ pc \in {"loop", "wait", "acquire", "submit", "present", "advance",
               "exitIdle", "cleanup"} => AllAlive
    /\ gfxQueue # <<>> => AllAlive

C13_Witness ==
    /\ pc = "advance"
    /\ fr.recs = 1
    /\ fr.sub = "SUCCESS"
    /\ AllNew
    /\ frames >= MAX_FRAMES_IN_FLIGHT

C15_SubmitFailureIsFatal ==
    /\ fr.sub = "ERROR" =>
          /\ pc = "failed"
          /\ error = "failed to submit draw command buffer"
          /\ fr.pres = "none"
          /\ fr.recStarted = 0
          /\ currentFrame = fr.slot
          /\ BatchesOf(currentFrame) = {}
          /\ fences[currentFrame] = "reset"
    /\ error = "failed to submit draw command buffer" => fr.sub = "ERROR"

C15_Witness ==
    /\ pc = "failed"
    /\ fr.sub = "ERROR"
    /\ frames >= MAX_FRAMES_IN_FLIGHT
    /\ gfxQueue # <<>>

C17_ShutdownOrder ==
    [][ /\ pc \in Shutdown =>
              /\ pc' \in Shutdown
              /\ frames' = frames
              /\ Len(gfxQueue') <= Len(gfxQueue)
        /\ (pc' \in Shutdown /\ pc \notin Shutdown) => (pc = "loop" /\ pc' = "exitIdle")
        /\ (pc' = "cleanup" /\ pc # "cleanup") => (pc = "exitIdle" /\ ~WorkUnfinished)
        /\ (pc' = "done" /\ pc # "done") => (pc = "cleanup" /\ ~WorkUnfinished)
        /\ (pc \in Shutdown /\ res' # res) =>
              /\ ~WorkUnfinished
              /\ \A d \in Resources : res'.gen[d] = "none" ]_vars

C17_Witness ==
    /\ pc = "done"
    /\ frames > MAX_FRAMES_IN_FLIGHT
    /\ fr.pres = "SUCCESS"
    /\ \A d \in Resources : res.gen[d] = "none"

\* C18: the per-slot semaphores and fences are created once and destroyed
\* once, by cleanup: no step of recreateSwapChain destroys or recreates them or
\* changes a fence, a semaphore or the slot index, and they exist in every
\* state before cleanup has run
C18_SyncObjectsOutliveSwapchain ==
    [][ /\ (InRecreate /\ ~GpuComplete /\ ~PresentEngine) =>
              /\ UNCHANGED <<fences, imageAvailable, renderFinished, currentFrame>>
              /\ res'.gen["syncObjects"] = res.gen["syncObjects"]
        /\ pc # "done" => res.gen["syncObjects"] = "earlier"
        /\ res'.gen["syncObjects"] # res.gen["syncObjects"] =>
              (pc = "cleanup" /\ res'.gen["syncObjects"] = "none") ]_vars

C18_Witness ==
    /\ pc = "advance"
    /\ fr.recs = 1
    /\ fr.sub = "SUCCESS"
    /\ res.gen["syncObjects"] = "earlier"
    /\ res.gen["swapChain"] = "new"
    /\ fences[currentFrame] = "signaled"
    /\ fences[NextSlot(currentFrame)] = "signaled"
    /\ frames > MAX_FRAMES_IN_FLIGHT

\* C19: after recreateSwapChain has returned, the stored swapchain extent is
\* the currentExtent the surface reported to this recreation, or for an open
\* extent the framebuffer size clamped to the surface's bounds, and its width
\* and height are not zero
C19_ExtentMatchesWindow ==
    (fr.recs = 1 /\ pc # "done") =>
        /\ fr.surface.currentExtent # OpenExtent =>
              res.extent = fr.surface.currentExtent
        /\ fr.surface.currentExtent = OpenExtent =>
              /\ res.extent[1] >= MinImageExtent[1] /\ res.extent[1] <= MaxImageExtent[1]
              /\ res.extent[2] >= MinImageExtent[2] /\ res.extent[2] <= MaxImageExtent[2]
              /\ \A i \in 1 .. 2 :
                    (fr.surface.framebuffer[i] >= MinImageExtent[i]
                     /\ fr.surface.framebuffer[i] <= MaxImageExtent[i]) =>
                        res.extent[i] = fr.surface.framebuffer[i]
        /\ res.extent[1] # 0
        /\ res.extent[2] # 0

\* C20: when drawFrame writes the acquired image's uniform buffer and submits
\* that image's command buffer, no batch submitted earlier for the same image
\* index is still unfinished, and at no time are two unfinished batches using
\* the same image index
C20_ImageResourcesNotInFlight ==
    /\ pc = "submit" => \A j \in 1 .. Len(gfxQueue) : gfxQueue[j].img # imageIndex
    /\ \A i, j \in 1 .. Len(gfxQueue) : (gfxQueue[i].img = gfxQueue[j].img) => i = j

\* C21: the fences are created signaled, so none of the first
\* MAX_FRAMES_IN_FLIGHT drawFrame calls finds its slot's fence unsignaled at the
\* fence wait; and while the program runs a fence is unsignaled only from its
\* reset in drawFrame, through the submit of the same call, until the batch
\* submitted with it has completed
C21_FencesStartSignaled ==
    /\ (pc = "wait" /\ frames <= MAX_FRAMES_IN_FLIGHT) => fences[currentFrame] = "signaled"
    /\ \A i \in Slots :
          /\ fences[i] = "reset" =>
                (i = currentFrame /\ pc \in {"acquire", "submit", "failed"})
          /\ fences[i] = "armed" => BatchesOf(i) # {}

\* C26: whenever drawFrame runs, _swapChainImages and the image views,
\* framebuffers, command buffers, uniform buffers and descriptor sets have one
\* entry per image of the current swapchain, and the acquired image index is a
\* valid index into each of them
C26_OneEntryPerImage ==
    pc \in {"wait", "acquire", "submit", "present"} =>
       \A d \in PerImage \cup {"swapChain"} :
          /\ res.count[d] = Cardinality(DOMAIN images)
          /\ pc \in {"submit", "present"} => imageIndex \in 0 .. (res.count[d] - 1)

\* drawFrame has acquired the last image of a three-image swapchain built by a
\* recreation
C26_Witness ==
    /\ pc = "submit"
    /\ run.recs = 1
    /\ imageIndex = 2
    /\ \A d \in PerImage : res.count[d] = 3

\* ================================================================ startup
\* The steps of initVulkan are modelled on their own, each under its own
\* specification, with the frame loop not yet entered.

\* the frame loop's variables while initVulkan runs
NotStarted ==
    /\ pc = "initVulkan"
    /\ caller = "none"
    /\ currentFrame = 0
    /\ windowResized = FALSE
    /\ queueFamilies = [graphics |-> 0, present |-> 0]
    /\ fences = [i \in Slots |-> "signaled"]
    /\ imageAvailable = [i \in Slots |-> FALSE]
    /\ renderFinished = [i \in Slots |-> FALSE]
    /\ gfxQueue = <<>>
    /\ swapAlive = FALSE
    /\ images = <<>>
    /\ presentQueue = <<>>
    /\ imageIndex = 0
    /\ size = <<0, 0>>
    /\ sizeTrace = 0
    /\ frames = 0
    /\ resizedSince = FALSE
    /\ fr = NewFrame(0)
    /\ error = "none"
    /\ exit = [code |-> "running", stderr |-> "none"]
    /\ res = [gen |-> [d \in Resources |-> "none"], leaked |-> {}, extent |-> "earlier",
              invalid |-> {}, orphaned |-> {}, premature |-> {},
              count |-> [d \in PerImage \cup {"swapChain"} |-> 0]]
    /\ run = [oods |-> 0, recs |-> 0]

\* ------------------------------------------------------- the whole run

\* run(): initWindow(); initVulkan(); mainLoop(); cleanup(). initVulkan runs its
\* create functions in order up to the first exception; result is the step
\* whose creation call fails, m the number of images of the first swapchain,
\* present the chosen present family
initVulkan(result, m, present) ==
    /\ pc = "initVulkan"
    /\ LET b == Build(res, InitOrder, result, m) IN
       IF b.error # "none"
       THEN /\ pc' = "failed"
            /\ error' = b.error
            /\ res' = b.res
            /\ swapAlive' = (b.res.gen["swapChain"] # "none")
            /\ UNCHANGED <<images, queueFamilies>>
       ELSE /\ pc' = "loop"
            /\ res' = Age(b.res)
            /\ swapAlive' = TRUE
            /\ images' = [k \in 0 .. (m - 1) |-> FreeImage]
            /\ queueFamilies' = [graphics |-> 0, present |-> present]
            /\ UNCHANGED error
    /\ UNCHANGED <<startup, exit, run, caller, currentFrame, windowResized, fences,
                   imageAvailable, renderFinished, gfxQueue, presentQueue, imageIndex,
                   size, sizeTrace, frames, resizedSince, fr>>

RunInit ==
    /\ NotStarted
    /\ check = "over"
    /\ gpu = "over"
    /\ upload = "over"
    /\ inst = "over"

RunNext ==
    \/ \E result \in InitResults :
          \E m \in IF result = "ok" THEN ImageCounts ELSE {2},
             present \in IF result = "ok" THEN Families ELSE {0} :
             initVulkan(result, m, present)
    \/ Next

RunSpec == RunInit /\ [][RunNext]_vars

\* C27: after a normal shutdown, with any number of recreations before it,
\* every object initVulkan or recreateSwapChain created has been destroyed,
\* none was overwritten while alive, none was destroyed while it did not
\* exist, and the device, the surface and the instance were each destroyed
\* with nothing created from them left
C27_ResourcesBalanced ==
    pc = "done" =>
       /\ \A d \in Resources : res.gen[d] = "none"
       /\ res.leaked = {}
       /\ res.invalid = {}
       /\ res.orphaned = {}

\* a run that recreated the swapchain has shut down
C27_Witness ==
    /\ pc = "done"
    /\ run.recs = 1
    /\ frames > 1
    /\ \A d \in Resources : res.gen[d] = "none"

\* C28: no create function of initVulkan or recreateSwapChain has run while
\* an object it builds from did not exist
C28_BuiltFromExists == res.premature = {}

\* a recreation has rebuilt the dependents after initVulkan built everything
C28_Witness ==
    /\ fr.rebuild = "ok"
    /\ \A d \in Dependents : res.gen[d] = "new"
    /\ \A d \in Resources \ Dependents : res.gen[d] = "earlier"

\* ------------------------------------------------ queue-family selection

MaxDevices == 2
MaxFamilies == 2

\* one queue family: queueFlags & VK_QUEUE_GRAPHICS_BIT, supportsPresentation[i]
FamilyKinds == [graphics : BOOLEAN, present : BOOLEAN]
FamilyLists(n) == UNION {[1 .. len -> FamilyKinds] : len \in 0 .. n}

\* std::optional<uint32_t>: empty, or holding a value; operator== holds for two
\* empty optionals and for two that hold the same value
nullopt == [has_value |-> FALSE, value |-> 0]
Some(v) == [has_value |-> TRUE, value |-> v]
OptionalEq(a, b) == a.has_value = b.has_value /\ (a.has_value => a.value = b.value)

\* QueueFamilies as choosePhysicalDevice declares it
NoFamilies == [properties |-> <<>>, graphics |-> nullopt, present |-> nullopt]

\* the selection loop from family i (counted from 1) on: each index is
\* overwritten by a family that has the capability, and the loop returns at the
\* first family after which the two optionals compare equal
RECURSIVE FamiliesLoop(_, _)
FamiliesLoop(f, i) ==
    IF i > Len(f.properties)
    THEN [result |-> f.graphics.has_value /\ f.present.has_value, families |-> f]
    ELSE LET g == IF f.properties[i].graphics THEN Some(i - 1) ELSE f.graphics
             p == IF f.properties[i].present THEN Some(i - 1) ELSE f.present
             f2 == [f EXCEPT !.graphics = g, !.present = p]
         IN  IF OptionalEq(g, p)
             THEN [result |-> TRUE, families |-> f2]
             ELSE FamiliesLoop(f2, i + 1)

\* checkPhysicalDeviceQueueFamilies(physicalDevice, families): the family list
\* of the device replaces properties and supportsPresentation; graphics and
\* present are whatever the caller's object holds
checkPhysicalDeviceQueueFamilies(properties, families) ==
    FamiliesLoop([families EXCEPT !.properties = properties], 1)

\* choosePhysicalDevice examines the candidates in order and hands the same
\* families object to every call
FamiliesInit ==
    /\ NotStarted
    /\ gpu = "over"
    /\ upload = "over"
    /\ inst = "over"
    /\ \E n \in 1 .. MaxDevices :
          \E lists \in [1 .. n -> FamilyLists(MaxFamilies)] :
             check = [physicalDevices |-> lists, examined |-> 0,
                      families |-> NoFamilies, result |-> FALSE]

choosePhysicalDevice_CheckFamilies ==
    /\ check.examined < Len(check.physicalDevices)
    /\ LET r == checkPhysicalDeviceQueueFamilies(
                    check.physicalDevices[check.examined + 1], check.families)
       IN  check' = [check EXCEPT !.examined = @ + 1, !.families = r.families,
                                  !.result = r.result]
    /\ UNCHANGED <<frameLoop, gpu, upload, inst>>

FamiliesNext == choosePhysicalDevice_CheckFamilies

FamiliesSpec == FamiliesInit /\ [][FamiliesNext]_vars

\* the family list of the candidate examined last
Examined == check.physicalDevices[check.examined]
BothAt(list) == {i \in 1 .. Len(list) : list[i].graphics /\ list[i].present}
Lowest(S) == CHOOSE i \in S : \A j \in S : i <= j

\* C22: after checkPhysicalDeviceQueueFamilies has run on a device whose family
\* list holds a family with the graphics bit and presentation support, both
\* indices are set, equal, and the lowest index of such a family
C22_FirstFamilyWithBoth ==
    (check.examined > 0 /\ BothAt(Examined) # {}) =>
        /\ check.families.graphics = Some(Lowest(BothAt(Examined)) - 1)
        /\ check.families.present = Some(Lowest(BothAt(Examined)) - 1)

\* C23: whenever checkPhysicalDeviceQueueFamilies returns true, both indices are
\* set and name families of the examined device that have the graphics bit and
\* presentation support, whatever candidates were examined before
C23_IndicesOfThisDevice ==
    (check.examined > 0 /\ check.result) =>
        /\ check.families.graphics.has_value
        /\ check.families.present.has_value
        /\ check.families.graphics.value + 1 \in DOMAIN Examined
        /\ check.families.present.value + 1 \in DOMAIN Examined
        /\ Examined[check.families.graphics.value + 1].graphics
        /\ Examined[check.families.present.value + 1].present

\* ------------------------------------------------------ device selection

MaxDeviceFamilies == 1
VK_NULL_HANDLE == 0

\* what the queries return for one physical device: whether every required
\* device extension is offered, its queue families, whether the surface has
\* formats and present modes, features.samplerAnisotropy, and whether
\* properties.deviceType is VK_PHYSICAL_DEVICE_TYPE_DISCRETE_GPU
PhysicalDevices ==
    [extensions : BOOLEAN, families : FamilyLists(MaxDeviceFamilies),
     formats : BOOLEAN, presentModes : BOOLEAN, samplerAnisotropy : BOOLEAN,
     discrete : BOOLEAN]

checkPhysicalDeviceExtensions(d) == d.extensions
checkPhysicalDeviceSwapChain(d) == d.formats /\ d.presentModes
checkPhysicalDeviceFeatures(d) == d.samplerAnisotropy

\* a device handle is the device's position in the enumeration
SelectInit ==
    /\ NotStarted
    /\ check = "over"
    /\ upload = "over"
    /\ inst = "over"
    /\ \E n \in 0 .. MaxDevices :
          \E devices \in [1 .. n -> PhysicalDevices] :
             gpu = [pc |-> "enumerate", physicalDevices |-> devices, next |-> 1,
                    families |-> NoFamilies, physicalDevice |-> VK_NULL_HANDLE,
                    queueFamilies |-> NoFamilies, error |-> "none"]

\* vkEnumeratePhysicalDevices: no device at all is an error
choosePhysicalDevice_Enumerate ==
    /\ gpu.pc = "enumerate"
    /\ gpu' = IF Len(gpu.physicalDevices) = 0
              THEN [gpu EXCEPT !.pc = "failed",
                               !.error = "failed to find any GPU with Vulkan support"]
              ELSE [gpu EXCEPT !.pc = "loop"]
    /\ UNCHANGED <<frameLoop, check, upload, inst>>

\* one pass of the candidate loop: a failed check continues with the next
\* device; a device that passes all four is stored, and a discrete one ends
\* the loop
choosePhysicalDevice_Examine ==
    /\ gpu.pc = "loop"
    /\ gpu.next <= Len(gpu.physicalDevices)
    /\ LET d == gpu.physicalDevices[gpu.next]
           r == checkPhysicalDeviceQueueFamilies(d.families, gpu.families)
       IN  gpu' =
             IF ~checkPhysicalDeviceExtensions(d)
             THEN [gpu EXCEPT !.next = @ + 1]
             ELSE IF ~r.result \/ ~checkPhysicalDeviceSwapChain(d)
                     \/ ~checkPhysicalDeviceFeatures(d)
             THEN [gpu EXCEPT !.next = @ + 1, !.families = r.families]
             ELSE [gpu EXCEPT !.next = @ + 1, !.families = r.families,
                              !.physicalDevice = gpu.next,
                              !.queueFamilies = r.families,
                              !.pc = IF d.discrete THEN "after" ELSE "loop"]
    /\ UNCHANGED <<frameLoop, check, upload, inst>>

\* after the loop: no stored device is an error; printing the chosen indices
\* reads .value() of both optionals, which throws std::bad_optional_access on
\* an empty one
choosePhysicalDevice_Finish ==
    /\ \/ gpu.pc = "after"
       \/ gpu.pc = "loop" /\ gpu.next > Len(gpu.physicalDevices)
    /\ gpu' = IF gpu.physicalDevice = VK_NULL_HANDLE
              THEN [gpu EXCEPT !.pc = "failed", !.error = "failed to find a suitable GPU"]
              ELSE IF ~gpu.queueFamilies.graphics.has_value
                      \/ ~gpu.queueFamilies.present.has_value
              THEN [gpu EXCEPT !.pc = "failed", !.error = "bad optional access"]
              ELSE [gpu EXCEPT !.pc = "chosen"]
    /\ UNCHANGED <<frameLoop, check, upload, inst>>

SelectNext ==
    \/ choosePhysicalDevice_Enumerate
    \/ choosePhysicalDevice_Examine
    \/ choosePhysicalDevice_Finish

SelectSpec == SelectInit /\ [][SelectNext]_vars

\* the device itself has what the four checks ask for
Suitable(d) ==
    /\ d.extensions
    /\ \E i \in DOMAIN d.families : d.families[i].graphics
    /\ \E i \in DOMAIN d.families : d.families[i].present
    /\ d.formats /\ d.presentModes
    /\ d.samplerAnisotropy
SuitableDevices == {i \in DOMAIN gpu.physicalDevices : Suitable(gpu.physicalDevices[i])}
LoopOver == gpu.pc \in {"after", "chosen", "failed"} \/ gpu.next > Len(gpu.physicalDevices)

\* C24: the stored device is always one that itself passes every suitability
\* check, and choosePhysicalDevice throws "failed to find a suitable GPU" exactly
\* when devices were enumerated and none passes all of them ("failed to find any
\* GPU with Vulkan support" exactly when none was enumerated)
C24_OnlySuitableDevice ==
    /\ gpu.physicalDevice # VK_NULL_HANDLE => gpu.physicalDevice \in SuitableDevices
    /\ gpu.pc \in {"chosen", "failed"} =>
          /\ (gpu.pc = "failed" /\ gpu.error = "failed to find a suitable GPU")
                <=> (Len(gpu.physicalDevices) > 0 /\ SuitableDevices = {})
          /\ (gpu.pc = "failed" /\ gpu.error = "failed to find any GPU with Vulkan support")
                <=> Len(gpu.physicalDevices) = 0

\* C25: when the candidate loop is over and a suitable device is a discrete GPU,
\* the stored device is the first such device; a suitable device that is not
\* discrete is the stored one only when no suitable device is discrete
C25_FirstDiscrete ==
    LET discrete == {i \in SuitableDevices : gpu.physicalDevices[i].discrete}
    IN  (gpu.pc # "enumerate" /\ LoopOver) =>
           /\ discrete # {} => gpu.physicalDevice = Lowest(discrete)
           /\ (gpu.physicalDevice \in SuitableDevices \ discrete) => discrete = {}

\* -------------------------------------------------------- staging uploads

\* the create functions of initVulkan that upload through a staging buffer, in
\* its order, and the one-shot command buffers each submits, in order
Uploads == <<"createTextureImage", "createVertexBuffer", "createIndexBuffer">>
Commands(fn) ==
    IF fn = "createTextureImage"
    THEN <<"UNDEFINED->TRANSFER_DST", "copy", "TRANSFER_DST->SHADER_READ_ONLY">>
    ELSE <<"copy">>
AllCommands == Commands(Uploads[1]) \o Commands(Uploads[2]) \o Commands(Uploads[3])

\* what the calls of one beginSingleShotCommands / endSingleShotCommands pair
\* return: all succeed, or vkBeginCommandBuffer, vkEndCommandBuffer or
\* vkQueueSubmit fails
OneShotResults == {"SUCCESS", "BEGIN_ERROR", "END_ERROR", "SUBMIT_ERROR"}

\* vkQueueWaitIdle(_graphicsQueue) returns once the queue has nothing pending
QueueIdle_NoWait(queue) == TRUE
QueueIdle(queue) == queue = <<>>

UploadInit ==
    /\ NotStarted
    /\ check = "over"
    /\ gpu = "over"
    /\ inst = "over"
    /\ \E results \in [DOMAIN AllCommands -> OneShotResults] :
          upload = [results |-> results, call |-> 0, fn |-> 1, pc |-> "start",
                    staging |-> "none", layout |-> "none", todo |-> <<>>,
                    cmd |-> [state |-> "none", command |-> "none"],
                    queue |-> <<>>, executed |-> <<>>, hazards |-> {},
                    error |-> "none"]

\* createBuffer for the staging buffer, the memcpy into it, and the
\* destination: createImage leaves the texture in VK_IMAGE_LAYOUT_UNDEFINED
createStagingBuffer ==
    /\ upload.pc = "start"
    /\ upload' = [upload EXCEPT
                    !.staging = "alive",
                    !.layout = IF Uploads[upload.fn] = "createTextureImage"
                               THEN "UNDEFINED" ELSE @,
                    !.todo = Commands(Uploads[upload.fn]),
                    !.pc = "helper"]
    /\ UNCHANGED <<frameLoop, check, gpu, inst>>

\* transitionImageLayout, copyBufferToImage, copyBuffer: allocate and begin a
\* one-shot command buffer and record the one command into it
beginSingleShotCommands ==
    /\ upload.pc = "helper"
    /\ upload' =
         IF upload.results[upload.call + 1] = "BEGIN_ERROR"
         THEN [upload EXCEPT !.call = @ + 1, !.pc = "failed",
                             !.error = "failed to begin recording command buffer"]
         ELSE [upload EXCEPT !.call = @ + 1, !.pc = "end",
                             !.cmd = [state |-> "recording",
                                      command |-> Head(upload.todo)]]
    /\ UNCHANGED <<frameLoop, check, gpu, inst>>

\* endSingleShotCommands up to vkQueueSubmit
endSingleShotCommands_Submit ==
    /\ upload.pc = "end"
    /\ upload' =
         CASE upload.results[upload.call] = "END_ERROR" ->
                [upload EXCEPT !.pc = "failed",
                               !.error = "failed to end recording command buffer"]
           [] upload.results[upload.call] = "SUBMIT_ERROR" ->
                [upload EXCEPT !.pc = "failed",
                               !.error = "failed to submit copy command buffer"]
           [] OTHER ->
                [upload EXCEPT !.pc = "waitIdle",
                               !.cmd = [@ EXCEPT !.state = "pending"],
                               !.queue = Append(@, upload.cmd.command)]
    /\ UNCHANGED <<frameLoop, check, gpu, inst>>

\* vkQueueWaitIdle, then vkFreeCommandBuffers, and the helper returns
endSingleShotCommands_WaitIdle ==
    /\ upload.pc = "waitIdle"
    /\ QueueIdle(upload.queue)
    /\ upload' = [upload EXCEPT
                    !.cmd = [@ EXCEPT !.state = "freed"],
                    !.hazards = IF upload.queue # <<>>
                                THEN @ \cup {"command buffer freed while pending"}
                                ELSE @,
                    !.todo = Tail(@),
                    !.pc = IF Tail(upload.todo) = <<>> THEN "destroyStaging"
                           ELSE "helper"]
    /\ UNCHANGED <<frameLoop, check, gpu, inst>>

\* vkDestroyBuffer and vkFreeMemory of the staging buffer; the create function
\* returns
destroyStagingBuffer ==
    /\ upload.pc = "destroyStaging"
    /\ upload' = [upload EXCEPT !.staging = "destroyed", !.pc = "returned"]
    /\ UNCHANGED <<frameLoop, check, gpu, inst>>

\* initVulkan goes on to the next create function that uploads, with its own
\* staging buffer and command buffers
initVulkan_NextUpload ==
    /\ upload.pc = "returned"
    /\ upload' = IF upload.fn < Len(Uploads)
                 THEN [upload EXCEPT !.fn = @ + 1, !.pc = "start", !.staging = "none",
                                     !.executed = <<>>,
                                     !.cmd = [state |-> "none", command |-> "none"]]
                 ELSE [upload EXCEPT !.pc = "done"]
    /\ UNCHANGED <<frameLoop, check, gpu, inst>>

\* the graphics queue executes its oldest pending command buffer: a copy reads
\* the staging buffer and writes an image in TRANSFER_DST, a transition
\* changes the layout of the texture
GraphicsQueue_Execute ==
    /\ upload.queue # <<>>
    /\ LET c == Head(upload.queue) IN
       upload' = [upload EXCEPT
                    !.queue = Tail(@),
                    !.executed = Append(@, c),
                    !.layout = CASE c = "UNDEFINED->TRANSFER_DST" -> "TRANSFER_DST"
                                 [] c = "TRANSFER_DST->SHADER_READ_ONLY" -> "SHADER_READ_ONLY"
                                 [] OTHER -> @,
                    !.hazards =
                        @ \cup (IF c = "copy" /\ upload.staging # "alive"
                                THEN {"copy reads a destroyed staging buffer"} ELSE {})
                          \cup (IF /\ Uploads[upload.fn] = "createTextureImage"
                                   /\ c # "UNDEFINED->TRANSFER_DST"
                                   /\ upload.layout # "TRANSFER_DST"
                                THEN {"image not in TRANSFER_DST"} ELSE {})]
    /\ UNCHANGED <<frameLoop, check, gpu, inst>>

UploadNext ==
    \/ createStagingBuffer
    \/ beginSingleShotCommands
    \/ endSingleShotCommands_Submit
    \/ endSingleShotCommands_WaitIdle
    \/ destroyStagingBuffer
    \/ initVulkan_NextUpload
    \/ GraphicsQueue_Execute

UploadSpec == UploadInit /\ [][UploadNext]_vars

IsPrefix(a, b) == Len(a) <= Len(b) /\ \A i \in DOMAIN a : a[i] = b[i]

\* C29: the graphics queue has work pending only while endSingleShotCommands
\* waits for it: a one-shot command buffer is freed, and the staging buffer is
\* destroyed, only after the command that uses it has executed; the texture's
\* copy executes after the transition to TRANSFER_DST and before the one to
\* SHADER_READ_ONLY
C29_UploadsSynchronous ==
    /\ upload.pc # "waitIdle" => upload.queue = <<>>
    /\ upload.cmd.state = "freed" =>
          /\ upload.executed # <<>>
          /\ upload.executed[Len(upload.executed)] = upload.cmd.command
    /\ upload.staging = "destroyed" =>
          /\ \E i \in DOMAIN upload.executed : upload.executed[i] = "copy"
          /\ upload.queue = <<>>
    /\ upload.hazards = {}
    /\ IsPrefix(upload.executed, Commands(Uploads[upload.fn]))

\* createTextureImage has returned: both transitions and the copy have
\* executed, the last command buffer is freed, the staging buffer destroyed
C29_Witness ==
    /\ Uploads[upload.fn] = "createTextureImage"
    /\ upload.pc = "returned"
    /\ upload.staging = "destroyed"
    /\ upload.cmd.state = "freed"
    /\ upload.layout = "SHADER_READ_ONLY"
    /\ upload.executed = Commands("createTextureImage")

\* ------------------------------------------------------ instance creation

\* the instance extensions GLFW asks for (initWindow), the extension and the
\* layer of validation, and what else a system may offer
GlfwExtensions == {"VK_KHR_surface"}
VK_EXT_DEBUG_UTILS_EXTENSION_NAME == "VK_EXT_debug_utils"
requiredValidationLayers == {"VK_LAYER_KHRONOS_validation"}
InstanceExtensions == GlfwExtensions \cup {VK_EXT_DEBUG_UTILS_EXTENSION_NAME}
InstanceLayers == requiredValidationLayers \cup {"VK_LAYER_LUNARG_api_dump"}

\* a build (_DEBUG sets _enableValidationLayers), what the system offers, and
\* the results of vkCreateInstance and vkCreateDebugUtilsMessengerEXT
InstanceInit ==
    /\ NotStarted
    /\ check = "over"
    /\ gpu = "over"
    /\ upload = "over"
    /\ \E enable \in BOOLEAN, extensions \in SUBSET InstanceExtensions,
          layers \in SUBSET InstanceLayers,
          created \in {"VK_SUCCESS", "ERROR"}, messenger \in {"VK_SUCCESS", "ERROR"} :
          inst = [enableValidationLayers |-> enable,
                  availableExtensions |-> extensions, availableLayers |-> layers,
                  createResult |-> created, messengerResult |-> messenger,
                  pc |-> "createInstance",
                  requiredInstanceExtensions |-> GlfwExtensions,
                  enabledExtensions |-> {}, enabledLayers |-> {},
                  instance |-> "none", debugMessenger |-> "none",
                  error |-> "none"]

\* createInstance: with validation enabled the debug-utils extension joins the
\* required ones; checkRequiredInstanceExtensions throws on a missing one
createInstance_CheckExtensions ==
    /\ inst.pc = "createInstance"
    /\ LET required == inst.requiredInstanceExtensions \cup
                         (IF inst.enableValidationLayers
                          THEN {VK_EXT_DEBUG_UTILS_EXTENSION_NAME} ELSE {})
       IN  inst' = IF required \subseteq inst.availableExtensions
                   THEN [inst EXCEPT !.requiredInstanceExtensions = required,
                                     !.pc = "checkLayers"]
                   ELSE [inst EXCEPT !.requiredInstanceExtensions = required,
                                     !.pc = "failed",
                                     !.error = "required instance extension not found"]
    /\ UNCHANGED <<frameLoop, check, gpu, upload>>

\* checkRequiredValidationLayers, which createInstance calls in every build
createInstance_CheckLayers ==
    /\ inst.pc = "checkLayers"
    /\ inst' = IF requiredValidationLayers \subseteq inst.availableLayers
               THEN [inst EXCEPT !.pc = "create"]
               ELSE [inst EXCEPT !.pc = "failed",
                                 !.error = "required validation layer not found"]
    /\ UNCHANGED <<frameLoop, check, gpu, upload>>

\* vkCreateInstance with ppEnabledExtensionNames = _requiredInstanceExtensions
\* and ppEnabledLayerNames = _requiredValidationLayers
createInstance_Create ==
    /\ inst.pc = "create"
    /\ inst' = IF inst.createResult = "VK_SUCCESS"
               THEN [inst EXCEPT !.enabledExtensions = inst.requiredInstanceExtensions,
                                 !.enabledLayers = requiredValidationLayers,
                                 !.instance = "created",
                                 !.pc = "createDebugMessenger"]
               ELSE [inst EXCEPT !.pc = "failed",
                                 !.error = "failed to create instance"]
    /\ UNCHANGED <<frameLoop, check, gpu, upload>>

\* createDebugMessenger returns at once without validation
createDebugMessenger ==
    /\ inst.pc = "createDebugMessenger"
    /\ inst' = IF ~inst.enableValidationLayers THEN [inst EXCEPT !.pc = "running"]
               ELSE IF inst.messengerResult = "VK_SUCCESS"
               THEN [inst EXCEPT !.debugMessenger = "created", !.pc = "running"]
               ELSE [inst EXCEPT !.pc = "failed",
                                 !.error = "failed to create debug messenger"]
    /\ UNCHANGED <<frameLoop, check, gpu, upload>>

\* the end of cleanup: destroyDebugMessenger, which returns at once without
\* validation, then vkDestroyInstance
cleanup_DestroyInstance ==
    /\ inst.pc = "running"
    /\ inst' = [inst EXCEPT !.debugMessenger = IF inst.enableValidationLayers
                                               THEN "destroyed" ELSE @,
                            !.instance = "destroyed",
                            !.pc = "done"]
    /\ UNCHANGED <<frameLoop, check, gpu, upload>>

InstanceNext ==
    \/ createInstance_CheckExtensions
    \/ createInstance_CheckLayers
    \/ createInstance_Create
    \/ createDebugMessenger
    \/ cleanup_DestroyInstance

InstanceSpec == InstanceInit /\ [][InstanceNext]_vars

\* C30: in a build without validation, createInstance enables no layer on the
\* instance and no debug messenger is created or destroyed; and on a system
\* that offers the required instance extensions and no validation layer, with
\* vkCreateInstance succeeding, createInstance does not fail
C30_NoValidationWhenDisabled ==
    ~inst.enableValidationLayers =>
       /\ inst.enabledLayers = {}
       /\ inst.debugMessenger = "none"
       /\ ( /\ inst.requiredInstanceExtensions \subseteq inst.availableExtensions
            /\ inst.availableLayers \cap requiredValidationLayers = {}
            /\ inst.createResult = "VK_SUCCESS" ) => inst.pc # "failed"
====
